---- MODULE Spec2Model ----
(***************************************************************************)
(* Webhook relay of the bounty board (src/index.ts): the poll cycle        *)
(* pollAndDispatch, the event detector detectEvents, the delivery engine   *)
(* deliverWebhook, the persistence of the state file and the management    *)
(* API that mutates the list of webhook endpoints.                         *)
(*                                                                         *)
(* JavaScript runs one callback at a time: between two awaits a function   *)
(* runs without interleaving.  Every action below is therefore one run of  *)
(* the code from one suspension point (await) to the next one.             *)
(***************************************************************************)
EXTENDS Integers, Sequences, FiniteSets, Bags, TLC

\* ---------------------------------------------------------------- bounds
MaxEnvEvents == 2     \* timer ticks, restarts and API mutations over one behaviour
MaxFailures == 3      \* POSTs that fail (non-2xx or transport error) over one behaviour
MaxExtra == 3         \* SpecTrim: log entries around the cap

\* ----------------------------------------------------- program constants
MAX_RETRIES == 3
RETRY_BASE_MS == 1000
LOG_CAP == 1000

\* ------------------------------------------------------------- the world
BountyIds == <<1, 2>>
IdSet == {BountyIds[i] : i \in 1..Len(BountyIds)}
\* the bounties the board ever lists under Spec
SpecIds == {BountyIds[1]}

NoSnapshot == "none"
KnownStatuses == {"open", "claimed", "submitted", "completed"}
AllStatuses == KnownStatuses \cup {"archived"}
\* the part of the lifecycle the board walks through under Spec
BoardOrder == <<"open", "claimed">>
BoardStatuses == {BoardOrder[i] : i \in 1..Len(BoardOrder)}
Rank(s) == IF s = NoSnapshot THEN 0
           ELSE CHOOSE i \in 1..Len(BoardOrder) : BoardOrder[i] = s

EventTypes == {"bounty.created", "bounty.claimed", "bounty.submitted", "bounty.completed"}
\* the events lists the modelled API requests carry
EventLists == {{"bounty.claimed"}, {"bounty.created", "bounty.claimed"}}

NoFile == [exists |-> FALSE]
NoCall == [made |-> FALSE]
NoDetect == [made |-> FALSE]

VARIABLES
  upstream,          \* the bounty board: id -> status, "none" while the bounty does not exist
  knownBounties,     \* state.knownBounties: id -> status of the snapshot, "none" if absent
  deliveryLog,       \* state.deliveryLog
  stateFile,         \* the contents of STATE_FILE
  webhookEndpoints,  \* the list of endpoints (CONFIG_FILE is rewritten on every change)
  nextEndpoint,      \* endpoints registered so far (generateId gives a fresh id)
  cycles,            \* the invocations of pollAndDispatch in progress (a bag of their locals)
  clock,             \* Date.now(): the stamp of the next event that gets an id
  envEvents,         \* timer ticks, restarts and API mutations so far
  failures,          \* POSTs that failed so far
  emitted,           \* history: events detected by this process, per id and type (capped at 2)
  lastDetect,        \* history: the last call of detectEvents
  lastCall,          \* history: the last call of deliverWebhook that returned
  delivered,         \* history: <<endpoint, id, type>> answered 2xx in this process
  deliveredBefore,   \* history: the same for the earlier processes, status unchanged since
  appended,          \* history: every entry ever pushed on the log of this process
  lastEnd,           \* history: how the last invocation that returned came to its end
  lastFeed,          \* history: the feed of the latest 2xx fetch of this process, once parsed
  lastFlush,         \* history: the last saveState: failed, ok, or ok right after a failed one
  exhausted          \* history: <<endpoint, id, type>> given up after MAX_RETRIES attempts in
                     \* this process, the status of the bounty on the board unchanged since

vars == <<upstream, knownBounties, deliveryLog, stateFile, webhookEndpoints, nextEndpoint,
          cycles, clock, envEvents, failures, emitted, lastDetect, lastCall, delivered,
          deliveredBefore, exhausted, appended, lastEnd, lastFeed, lastFlush>>

\* ------------------------------------------------------------ detectEvents
\* faulty variant: the backfill at discovery walks the lifecycle up to the status
detectEventsWalk(oldSnapshot, status) ==
  IF oldSnapshot = NoSnapshot
  THEN <<"bounty.created">>
       \o (IF status \in {"claimed", "submitted", "completed"} THEN <<"bounty.claimed">> ELSE <<>>)
       \o (IF status \in {"submitted", "completed"} THEN <<"bounty.submitted">> ELSE <<>>)
       \o (IF status = "completed" THEN <<"bounty.completed">> ELSE <<>>)
  ELSE (IF oldSnapshot # "claimed" /\ status = "claimed" THEN <<"bounty.claimed">> ELSE <<>>)
       \o (IF oldSnapshot # "submitted" /\ status = "submitted" THEN <<"bounty.submitted">> ELSE <<>>)
       \o (IF oldSnapshot # "completed" /\ status = "completed" THEN <<"bounty.completed">> ELSE <<>>)

\* faulty variant: with a snapshot, every status but open, claimed and submitted is
\* taken for completed
detectEventsDefault(oldSnapshot, status) ==
  IF oldSnapshot = NoSnapshot
  THEN <<"bounty.created">>
       \o (IF status = "claimed" THEN <<"bounty.claimed">> ELSE <<>>)
       \o (IF status = "submitted" THEN <<"bounty.submitted">> ELSE <<>>)
       \o (IF status = "completed" THEN <<"bounty.completed">> ELSE <<>>)
  ELSE IF status = "open" THEN <<>>
  ELSE IF status = "claimed"
  THEN (IF oldSnapshot # "claimed" THEN <<"bounty.claimed">> ELSE <<>>)
  ELSE IF status = "submitted"
  THEN (IF oldSnapshot # "submitted" THEN <<"bounty.submitted">> ELSE <<>>)
  ELSE (IF oldSnapshot # "completed" THEN <<"bounty.completed">> ELSE <<>>)

\* faulty variant: with a snapshot, the event of the status fires on every poll
detectEventsNoLatch(oldSnapshot, status) ==
  IF oldSnapshot = NoSnapshot
  THEN <<"bounty.created">>
       \o (IF status = "claimed" THEN <<"bounty.claimed">> ELSE <<>>)
       \o (IF status = "submitted" THEN <<"bounty.submitted">> ELSE <<>>)
       \o (IF status = "completed" THEN <<"bounty.completed">> ELSE <<>>)
  ELSE (IF status = "claimed" THEN <<"bounty.claimed">> ELSE <<>>)
       \o (IF status = "submitted" THEN <<"bounty.submitted">> ELSE <<>>)
       \o (IF status = "completed" THEN <<"bounty.completed">> ELSE <<>>)

detectEvents(oldSnapshot, status) ==
  IF oldSnapshot = NoSnapshot
  THEN <<"bounty.created">>
       \o (IF status = "claimed" THEN <<"bounty.claimed">> ELSE <<>>)
       \o (IF status = "submitted" THEN <<"bounty.submitted">> ELSE <<>>)
       \o (IF status = "completed" THEN <<"bounty.completed">> ELSE <<>>)
  ELSE (IF oldSnapshot # "claimed" /\ status = "claimed" THEN <<"bounty.claimed">> ELSE <<>>)
       \o (IF oldSnapshot # "submitted" /\ status = "submitted" THEN <<"bounty.submitted">> ELSE <<>>)
       \o (IF oldSnapshot # "completed" /\ status = "completed" THEN <<"bounty.completed">> ELSE <<>>)

\* ------------------------------------------------------------ persistence
EmptyState == [knownBounties |-> [i \in IdSet |-> NoSnapshot], deliveryLog |-> <<>>]

loadState(file) ==
  IF file.exists THEN [knownBounties |-> file.knownBounties, deliveryLog |-> file.deliveryLog]
  ELSE EmptyState

\* faulty variant: slice(0, 1000) keeps the oldest entries
TrimLogHead(log) ==
  IF Len(log) > LOG_CAP THEN SubSeq(log, 1, LOG_CAP) ELSE log

\* saveState, first half: keep only the last LOG_CAP entries
TrimLog(log) ==
  IF Len(log) > LOG_CAP THEN SubSeq(log, Len(log) - LOG_CAP + 1, Len(log)) ELSE log

\* saveState, second half: the file after writeFileSync (wrote = FALSE: it threw)
WriteFile(file, kb, log, wrote) ==
  IF wrote THEN [exists |-> TRUE, knownBounties |-> kb, deliveryLog |-> log] ELSE file

\* ------------------------------------------------------------ poll cycle
NewCycle == [pc |-> "fetch"]
\* the invocations in progress once c has reached its next await as d / has returned
Resume(c, d) == (cycles (-) SetToBag({c})) (+) SetToBag({d})
Return(c) == cycles (-) SetToBag({c})
NoEnd == "none"
NoFeed == [known |-> FALSE]
NoFlush == "none"
\* an answer that was the latest one is no longer, once a later fetch is answered
Stale(c) == IF c.pc = "json" THEN [c EXCEPT !.fresh = FALSE] ELSE c

Feed(up) ==
  SelectSeq([i \in 1..Len(BountyIds) |-> [id |-> BountyIds[i], status |-> up[BountyIds[i]]]],
            LAMBDA r : r.status # NoSnapshot)

\* faulty variant: the filter forgets ep.active
MatchesAnyState(ep, eventType) == eventType \in ep.events

\* webhookEndpoints.filter(ep => ep.active && ep.events.includes(eventType)), as ids
Matches(ep, eventType) == ep.active /\ eventType \in ep.events
Targets(eps, eventType) ==
  LET hit == SelectSeq(eps, LAMBDA ep : Matches(ep, eventType))
  IN [i \in 1..Len(hit) |-> hit[i].id]

Bump(em, id, evs) ==
  [p \in DOMAIN em |->
     IF p[1] = id /\ \E i \in 1..Len(evs) : evs[i] = p[2]
     THEN (IF em[p] < 2 THEN em[p] + 1 ELSE 2) ELSE em[p]]

\* faulty variant: the store is replaced by one that holds the polled record only
SnapshotOnly(kb, r) == [id \in DOMAIN kb |-> IF id = r.id THEN r.status ELSE NoSnapshot]

\* state.knownBounties[id] = {...}: the snapshot of the polled record is overwritten,
\* the other entries of the store are left as they are
Snapshot(kb, r) == [kb EXCEPT ![r.id] = r.status]

\* The synchronous part of the loops of pollAndDispatch, from the event c.ei of
\* the record c.ri on, up to the next await: the first deliverWebhook of an event
\* with a target (pc "post"), or the end of the feed (pc "save").
\* m = [kb, em, ld, clock, c]: snapshots, history of detections, the clock, the
\* cycle's locals.  An event that has a target takes the clock as the stamp of its id.
RECURSIVE Dispatch(_, _)
Dispatch(m, eps) ==
  LET c == m.c IN
  IF c.ei <= Len(c.events)
  THEN LET tg == Targets(eps, c.events[c.ei]) IN
       IF tg # <<>>
       THEN [m EXCEPT !.c = [c EXCEPT !.pc = "post", !.targets = tg, !.ti = 1,
                                      !.outs = <<>>, !.delays = <<>>,
                                      !.epsAtFilter = eps,
                                      !.stamp = m.clock],
                      !.clock = m.clock + 1]
       ELSE Dispatch([m EXCEPT !.c = [c EXCEPT !.ei = c.ei + 1]], eps)
  ELSE IF c.ri < Len(c.feed)
  THEN LET r == c.feed[c.ri + 1]
           old == m.kb[r.id]
           evs == detectEvents(old, r.status)
       IN Dispatch([kb |-> Snapshot(m.kb, r),
                    em |-> Bump(m.em, r.id, evs),
                    ld |-> [made |-> TRUE, old |-> old, status |-> r.status, events |-> evs],
                    clock |-> m.clock,
                    c |-> [c EXCEPT !.ri = c.ri + 1, !.events = evs, !.ei = 1]], eps)
  ELSE [m EXCEPT !.c = [c EXCEPT !.pc = "save"]]

EventId(c) == <<c.feed[c.ri].id, c.events[c.ei], c.stamp>>

\* how the last saveState went, after one more
Flushed(wrote) ==
  IF ~wrote THEN "failed" ELSE IF lastFlush = "failed" THEN "recovered" ELSE "ok"

\* faulty variant: a write that fails puts the state in memory back to the file's
SettleRollsBack(c0, m, log, wrote) ==
  /\ emitted' = m.em
  /\ lastDetect' = m.ld
  /\ clock' = m.clock
  /\ IF m.c.pc = "save"
     THEN /\ knownBounties' = IF wrote THEN m.kb ELSE loadState(stateFile).knownBounties
          /\ deliveryLog' = IF wrote THEN TrimLog(log) ELSE loadState(stateFile).deliveryLog
          /\ stateFile' = WriteFile(stateFile, m.kb, TrimLog(log), wrote)
          /\ cycles' = Return(c0)
          /\ lastEnd' = IF wrote THEN "flushed" ELSE "flushFailed"
          /\ lastFlush' = Flushed(wrote)
     ELSE /\ knownBounties' = m.kb
          /\ deliveryLog' = log
          /\ stateFile' = stateFile
          /\ wrote
          /\ cycles' = Resume(c0, m.c)
          /\ UNCHANGED <<lastEnd, lastFlush>>

\* the state after the invocation c0 ran up to its next await, given the machine m it
\* reached and the log it left; the flush at the end of the feed is part of it
Settle(c0, m, log, wrote) ==
  /\ knownBounties' = m.kb
  /\ emitted' = m.em
  /\ lastDetect' = m.ld
  /\ clock' = m.clock
  /\ IF m.c.pc = "save"
     THEN /\ deliveryLog' = TrimLog(log)
          /\ stateFile' = WriteFile(stateFile, m.kb, TrimLog(log), wrote)
          /\ cycles' = Return(c0)
          /\ lastEnd' = IF wrote THEN "flushed" ELSE "flushFailed"
          /\ lastFlush' = Flushed(wrote)
     ELSE /\ deliveryLog' = log
          /\ stateFile' = stateFile
          /\ wrote
          /\ cycles' = Resume(c0, m.c)
          /\ UNCHANGED <<lastEnd, lastFlush>>

Machine(c) ==
  [kb |-> knownBounties, em |-> emitted, ld |-> lastDetect, clock |-> clock, c |-> c]

\* setInterval(pollAndDispatch, POLL_INTERVAL): the call runs up to await fetch
Tick ==
  /\ envEvents < MaxEnvEvents
  /\ envEvents' = envEvents + 1
  /\ cycles' = cycles (+) SetToBag({NewCycle})
  /\ UNCHANGED <<upstream, knownBounties, deliveryLog, stateFile, webhookEndpoints,
                 nextEndpoint, clock, failures, emitted, lastDetect, lastCall, delivered,
                 deliveredBefore, exhausted, appended, lastEnd, lastFeed, lastFlush>>

\* fetch(`${API_BASE}/bounties`) answers non-2xx (return) or throws (catch)
FetchFails(c) ==
  /\ c.pc = "fetch"
  /\ cycles' = Return(c)
  /\ lastEnd' = "fetchFailed"
  /\ UNCHANGED <<upstream, knownBounties, deliveryLog, stateFile, webhookEndpoints,
                 nextEndpoint, clock, envEvents, failures, emitted, lastDetect, lastCall,
                 delivered, deliveredBefore, exhausted, appended, lastFeed, lastFlush>>

\* fetch answers 2xx; its body is the feed as it is now; await res.json()
FetchOk(c) ==
  /\ c.pc = "fetch"
  /\ cycles' = BagOfAll(Stale, Return(c))
                 (+) SetToBag({[pc |-> "json", feed |-> Feed(upstream), fresh |-> TRUE]})
  /\ lastFeed' = NoFeed
  /\ UNCHANGED <<upstream, knownBounties, deliveryLog, stateFile, webhookEndpoints,
                 nextEndpoint, clock, envEvents, failures, emitted, lastDetect, lastCall,
                 delivered, deliveredBefore, exhausted, appended, lastEnd, lastFlush>>

\* faulty variant: the catch block flushes the state
JsonFailsAndFlushes(c) ==
  /\ c.pc = "json"
  /\ cycles' = Return(c)
  /\ lastEnd' = "fetchFailed"
  /\ stateFile' = WriteFile(stateFile, knownBounties, TrimLog(deliveryLog), TRUE)
  /\ UNCHANGED <<upstream, knownBounties, deliveryLog, webhookEndpoints,
                 nextEndpoint, clock, envEvents, failures, emitted, lastDetect, lastCall,
                 delivered, deliveredBefore, exhausted, appended, lastFeed, lastFlush>>

\* res.json() throws on a malformed body (catch)
JsonFails(c) ==
  /\ c.pc = "json"
  /\ cycles' = Return(c)
  /\ lastEnd' = "fetchFailed"
  /\ UNCHANGED <<upstream, knownBounties, deliveryLog, stateFile, webhookEndpoints,
                 nextEndpoint, clock, envEvents, failures, emitted, lastDetect, lastCall,
                 delivered, deliveredBefore, exhausted, appended, lastFeed, lastFlush>>

\* res.json() resolves: the loop over the feed runs up to its first await
JsonOk(c) ==
  /\ c.pc = "json"
  /\ \E wrote \in BOOLEAN :
       LET c0 == [pc |-> "run", feed |-> c.feed, ri |-> 0, events |-> <<>>, ei |-> 1,
                  targets |-> <<>>, ti |-> 0, outs |-> <<>>, delays |-> <<>>, stamp |-> 0,
                  epsAtStart |-> webhookEndpoints, epsAtFilter |-> <<>>]
       IN Settle(c, Dispatch(Machine(c0), webhookEndpoints), deliveryLog, wrote)
  /\ lastFeed' = IF c.fresh THEN [known |-> TRUE, feed |-> c.feed] ELSE lastFeed
  /\ UNCHANGED <<upstream, webhookEndpoints, nextEndpoint, envEvents, failures, lastCall, delivered,
                 deliveredBefore, exhausted, appended>>

\* ------------------------------------------------------------ deliverWebhook
Outcomes == {"ok", "non2xx", "error"}

\* faulty variant: the attempt counter starts at 0
ResponseEntryZeroBased(eventId, endpointId, ok, attempt) ==
  [eventId |-> eventId, endpointId |-> endpointId,
   status |-> IF ok THEN "success" ELSE "failed", attempts |-> attempt - 1, statusCode |-> TRUE]

\* the entry pushed for a response
ResponseEntry(eventId, endpointId, ok, attempt) ==
  [eventId |-> eventId, endpointId |-> endpointId,
   status |-> IF ok THEN "success" ELSE "failed", attempts |-> attempt, statusCode |-> TRUE]

\* the entry pushed after the loop
FinalEntry(eventId, endpointId) ==
  [eventId |-> eventId, endpointId |-> endpointId,
   status |-> "failed", attempts |-> MAX_RETRIES, statusCode |-> FALSE]

\* faulty variant: only a 2xx answer is logged
AttemptEntriesOnSuccess(eventId, endpointId, outcome, attempt) ==
  IF outcome = "ok" THEN <<ResponseEntry(eventId, endpointId, TRUE, attempt)>> ELSE <<>>

\* what one attempt pushes on the log, by its outcome
AttemptEntries(eventId, endpointId, outcome, attempt) ==
  IF outcome = "error" THEN <<>>
  ELSE <<ResponseEntry(eventId, endpointId, outcome = "ok", attempt)>>

\* the wait after the failed attempt, in ms (the timer is set only when attempt < MAX_RETRIES)
BackoffDelay(attempt) == RETRY_BASE_MS * 2 ^ (attempt - 1)

\* faulty variant: the loop over the targets does not move on after a call
AfterCallSameTarget(c) ==
  [Machine(c) EXCEPT !.c = [c EXCEPT !.pc = "post", !.outs = <<>>, !.delays = <<>>]]

\* faulty variant: the loop over the targets reads the live list at every iteration
AfterCallLive(c) ==
  LET live == Targets(webhookEndpoints, c.events[c.ei]) IN
  IF c.ti < Len(live)
  THEN [Machine(c) EXCEPT !.c = [c EXCEPT !.pc = "post", !.targets = live, !.ti = c.ti + 1,
                                          !.outs = <<>>, !.delays = <<>>]]
  ELSE Dispatch(Machine([c EXCEPT !.ei = c.ei + 1]), webhookEndpoints)

\* after deliverWebhook returned: the next target, or the next event
AfterCall(c) ==
  IF c.ti < Len(c.targets)
  THEN [Machine(c) EXCEPT !.c = [c EXCEPT !.pc = "post", !.ti = c.ti + 1, !.outs = <<>>,
                                          !.delays = <<>>]]
  ELSE Dispatch(Machine([c EXCEPT !.ei = c.ei + 1]), webhookEndpoints)

\* faulty variant: a delivery that exhausted its retries ends the loop over the targets
AfterFailureBreaks(c) == Dispatch(Machine([c EXCEPT !.ei = c.ei + 1]), webhookEndpoints)

\* after deliverWebhook returned false: its result is not read, the loops go on
AfterFailure(c) == AfterCall(c)

\* the POST of attempt Len(outs)+1 is answered (2xx, non-2xx) or throws
PostReturns(c, outcome) ==
  LET attempt == Len(c.outs) + 1
      eid == EventId(c)
      ep == c.targets[c.ti]
      pushed == AttemptEntries(eid, ep, outcome, attempt)
      outs == Append(c.outs, outcome)
  IN
  /\ c.pc = "post"
  /\ outcome # "ok" => failures < MaxFailures
  /\ IF outcome = "ok"
     THEN \* return true
          /\ \E wrote \in BOOLEAN : Settle(c, AfterCall(c), deliveryLog \o pushed, wrote)
          /\ appended' = appended \o pushed
          /\ lastCall' = [made |-> TRUE, eventId |-> eid, endpointId |-> ep, outs |-> outs,
                          delays |-> c.delays, ret |-> TRUE]
          /\ delivered' = delivered \cup {<<ep, eid[1], eid[2]>>}
     ELSE IF attempt < MAX_RETRIES
     THEN \* the backoff timer is set
          /\ cycles' = Resume(c, [c EXCEPT !.pc = "backoff", !.outs = outs,
                                              !.delays = Append(c.delays, BackoffDelay(attempt))])
          /\ deliveryLog' = deliveryLog \o pushed
          /\ appended' = appended \o pushed
          /\ UNCHANGED <<knownBounties, stateFile, clock, emitted, lastDetect, lastCall,
                         delivered, lastEnd, lastFlush>>
     ELSE \* the loop ends: the final entry, return false
          /\ \E wrote \in BOOLEAN :
               Settle(c, AfterFailure(c), deliveryLog \o pushed \o <<FinalEntry(eid, ep)>>, wrote)
          /\ appended' = appended \o pushed \o <<FinalEntry(eid, ep)>>
          /\ lastCall' = [made |-> TRUE, eventId |-> eid, endpointId |-> ep, outs |-> outs,
                          delays |-> c.delays, ret |-> FALSE]
          /\ UNCHANGED delivered
  /\ failures' = IF outcome = "ok" THEN failures ELSE failures + 1
  /\ exhausted' = IF outcome # "ok" /\ attempt >= MAX_RETRIES
                  THEN exhausted \cup {<<ep, eid[1], eid[2]>>} ELSE exhausted
  /\ UNCHANGED <<upstream, webhookEndpoints, nextEndpoint, envEvents, deliveredBefore, lastFeed>>

\* the backoff timer fires: the next attempt is sent
BackoffDone(c) ==
  /\ c.pc = "backoff"
  /\ cycles' = Resume(c, [c EXCEPT !.pc = "post"])
  /\ UNCHANGED <<upstream, knownBounties, deliveryLog, stateFile, webhookEndpoints,
                 nextEndpoint, clock, envEvents, failures, emitted, lastDetect, lastCall,
                 delivered, deliveredBefore, exhausted, appended, lastEnd, lastFeed, lastFlush>>

\* ------------------------------------------------------------ management API
IndexOf(eps, id) ==
  IF \E i \in 1..Len(eps) : eps[i].id = id
  THEN CHOOSE i \in 1..Len(eps) : eps[i].id = id ELSE 0

\* POST /webhooks
ApiCreate(events) ==
  /\ envEvents < MaxEnvEvents
  /\ envEvents' = envEvents + 1
  /\ webhookEndpoints' =
       Append(webhookEndpoints, [id |-> nextEndpoint, events |-> events, active |-> TRUE])
  /\ nextEndpoint' = nextEndpoint + 1
  /\ UNCHANGED <<upstream, knownBounties, deliveryLog, stateFile, cycles, clock, failures,
                 emitted, lastDetect, lastCall, delivered, deliveredBefore, exhausted, appended, lastEnd, lastFeed, lastFlush>>

\* PATCH /webhooks/:id with {events} or {active}
ApiPatch(id, events, active) ==
  LET idx == IndexOf(webhookEndpoints, id) IN
  /\ idx > 0
  /\ envEvents < MaxEnvEvents
  /\ envEvents' = envEvents + 1
  /\ webhookEndpoints' =
       [webhookEndpoints EXCEPT ![idx] = [id |-> id, events |-> events, active |-> active]]
  /\ webhookEndpoints' # webhookEndpoints
  /\ UNCHANGED <<upstream, knownBounties, deliveryLog, stateFile, nextEndpoint, cycles, clock,
                 failures, emitted, lastDetect, lastCall, delivered, deliveredBefore, exhausted, appended,
                 lastEnd, lastFeed, lastFlush>>

\* DELETE /webhooks/:id
ApiDelete(id) ==
  LET idx == IndexOf(webhookEndpoints, id) IN
  /\ idx > 0
  /\ envEvents < MaxEnvEvents
  /\ envEvents' = envEvents + 1
  /\ webhookEndpoints' =
       SubSeq(webhookEndpoints, 1, idx - 1) \o SubSeq(webhookEndpoints, idx + 1, Len(webhookEndpoints))
  /\ UNCHANGED <<upstream, knownBounties, deliveryLog, stateFile, nextEndpoint, cycles, clock,
                 failures, emitted, lastDetect, lastCall, delivered, deliveredBefore, exhausted, appended,
                 lastEnd, lastFeed, lastFlush>>

\* ------------------------------------------------------------ environment
\* the bounty board moves a bounty forward in its lifecycle (or creates it)
UpstreamAdvance(id, s) ==
  /\ Rank(s) > Rank(upstream[id])
  /\ upstream' = [upstream EXCEPT ![id] = s]
  /\ deliveredBefore' = {d \in deliveredBefore : d[2] # id}
  /\ delivered' = {d \in delivered : d[2] # id}
  /\ exhausted' = {d \in exhausted : d[2] # id}
  /\ UNCHANGED <<knownBounties, deliveryLog, stateFile, webhookEndpoints, nextEndpoint, cycles,
                 clock, envEvents, failures, emitted, lastDetect, lastCall, appended, lastEnd, lastFeed, lastFlush>>

\* the process stops (at any point) and is started again: loadState, loadWebhooks,
\* the initial poll
Restart ==
  /\ envEvents < MaxEnvEvents
  /\ envEvents' = envEvents + 1
  /\ knownBounties' = loadState(stateFile).knownBounties
  /\ deliveryLog' = loadState(stateFile).deliveryLog
  /\ appended' = loadState(stateFile).deliveryLog
  /\ cycles' = SetToBag({NewCycle})
  /\ lastEnd' = NoEnd
  /\ lastFeed' = NoFeed
  /\ lastFlush' = NoFlush
  /\ emitted' = [p \in IdSet \X EventTypes |-> 0]
  /\ lastDetect' = NoDetect
  /\ lastCall' = NoCall
  /\ deliveredBefore' = deliveredBefore \cup delivered
  /\ exhausted' = {}
  /\ delivered' = {}
  /\ UNCHANGED <<upstream, stateFile, webhookEndpoints, nextEndpoint, clock, failures>>

\* ------------------------------------------------------------ specification
Init ==
  /\ upstream = [i \in IdSet |-> NoSnapshot]
  /\ knownBounties = loadState(NoFile).knownBounties
  /\ deliveryLog = loadState(NoFile).deliveryLog
  /\ stateFile = NoFile
  /\ webhookEndpoints = <<>>
  /\ nextEndpoint = 1
  /\ cycles = SetToBag({NewCycle})
  /\ clock = 1
  /\ lastEnd = NoEnd
  /\ lastFeed = NoFeed
  /\ lastFlush = NoFlush
  /\ envEvents = 0
  /\ failures = 0
  /\ emitted = [p \in IdSet \X EventTypes |-> 0]
  /\ lastDetect = NoDetect
  /\ lastCall = NoCall
  /\ delivered = {}
  /\ deliveredBefore = {}
  /\ exhausted = {}
  /\ appended = <<>>

Next ==
  \/ Tick
  \/ \E c \in BagToSet(cycles) : FetchFails(c)
  \/ \E c \in BagToSet(cycles) : FetchOk(c)
  \/ \E c \in BagToSet(cycles) : JsonFails(c)
  \/ \E c \in BagToSet(cycles) : JsonOk(c)
  \/ \E c \in BagToSet(cycles), o \in Outcomes : PostReturns(c, o)
  \/ \E c \in BagToSet(cycles) : BackoffDone(c)
  \/ \E ev \in EventLists : ApiCreate(ev)
  \/ \E i \in 1..Len(webhookEndpoints), ev \in EventLists, a \in BOOLEAN :
       ApiPatch(webhookEndpoints[i].id, ev, a)
  \/ \E i \in 1..Len(webhookEndpoints) : ApiDelete(webhookEndpoints[i].id)
  \/ \E id \in SpecIds, s \in BoardStatuses : UpstreamAdvance(id, s)
  \/ Restart

Spec == Init /\ [][Next]_vars

\* ------------------------------------------------------------ detection alone
\* The process starts on a state file that holds any snapshot, the board holds any
\* status (known or not), and the initial poll runs; no endpoint is registered.
InitDetect ==
  /\ upstream \in [IdSet -> AllStatuses \cup {NoSnapshot}]
  /\ \E kb \in [IdSet -> AllStatuses \cup {NoSnapshot}] :
       /\ stateFile = [exists |-> TRUE, knownBounties |-> kb, deliveryLog |-> <<>>]
       /\ knownBounties = loadState(stateFile).knownBounties
       /\ deliveryLog = loadState(stateFile).deliveryLog
       /\ appended = loadState(stateFile).deliveryLog
  /\ webhookEndpoints = <<>>
  /\ nextEndpoint = 1
  /\ cycles = SetToBag({NewCycle})
  /\ clock = 1
  /\ lastEnd = NoEnd
  /\ lastFeed = NoFeed
  /\ lastFlush = NoFlush
  /\ envEvents = 0
  /\ failures = 0
  /\ emitted = [p \in IdSet \X EventTypes |-> 0]
  /\ lastDetect = NoDetect
  /\ lastCall = NoCall
  /\ delivered = {}
  /\ deliveredBefore = {}
  /\ exhausted = {}

NextDetect ==
  \/ \E c \in BagToSet(cycles) : FetchFails(c)
  \/ \E c \in BagToSet(cycles) : FetchOk(c)
  \/ \E c \in BagToSet(cycles) : JsonFails(c)
  \/ \E c \in BagToSet(cycles) : JsonOk(c)

SpecDetect == InitDetect /\ [][NextDetect]_vars

\* ------------------------------------------------------------ the log at its cap
\* The process starts on a state file whose log is at most MaxExtra entries short of
\* LOG_CAP, with one endpoint registered in CONFIG_FILE, and the initial poll runs.
OldEntry(i) ==
  [eventId |-> <<0, "bounty.created", i>>, endpointId |-> 1, status |-> "success",
   attempts |-> 1, statusCode |-> TRUE]

InitTrim ==
  /\ upstream \in [IdSet -> BoardStatuses]
  /\ \E k \in 0..MaxExtra :
       /\ stateFile = [exists |-> TRUE, knownBounties |-> [i \in IdSet |-> NoSnapshot],
                       deliveryLog |-> [i \in 1..(LOG_CAP - k) |-> OldEntry(i)]]
       /\ knownBounties = loadState(stateFile).knownBounties
       /\ deliveryLog = loadState(stateFile).deliveryLog
       /\ appended = loadState(stateFile).deliveryLog
  /\ webhookEndpoints =
       <<[id |-> 1, events |-> {"bounty.created", "bounty.claimed"}, active |-> TRUE]>>
  /\ nextEndpoint = 2
  /\ cycles = SetToBag({NewCycle})
  /\ clock = 1
  /\ lastEnd = NoEnd
  /\ lastFeed = NoFeed
  /\ lastFlush = NoFlush
  /\ envEvents = 0
  /\ failures = 0
  /\ emitted = [p \in IdSet \X EventTypes |-> 0]
  /\ lastDetect = NoDetect
  /\ lastCall = NoCall
  /\ delivered = {}
  /\ deliveredBefore = {}
  /\ exhausted = {}

NextTrim ==
  \/ \E c \in BagToSet(cycles) : FetchOk(c)
  \/ \E c \in BagToSet(cycles) : JsonOk(c)
  \/ \E c \in BagToSet(cycles), o \in Outcomes : PostReturns(c, o)
  \/ \E c \in BagToSet(cycles) : BackoffDone(c)

SpecTrim == InitTrim /\ [][NextTrim]_vars

\* ------------------------------------------------------------ one poll cycle
\* The process starts on a state file that holds no snapshot or the snapshot 'open' of
\* each bounty, with two endpoints registered in CONFIG_FILE, the board lists any of the
\* two bounties, and the initial poll runs.
CycleConfigs ==
  { <<[id |-> 1, events |-> {"bounty.created", "bounty.claimed"}, active |-> TRUE],
      [id |-> 2, events |-> {"bounty.claimed"}, active |-> TRUE]>>,
    <<[id |-> 1, events |-> {"bounty.claimed"}, active |-> FALSE],
      [id |-> 2, events |-> {"bounty.claimed"}, active |-> TRUE]>> }

InitCycle ==
  /\ upstream \in [IdSet -> BoardStatuses \cup {NoSnapshot}]
  /\ \E kb \in [IdSet -> {NoSnapshot, "open"}] :
       /\ stateFile = [exists |-> TRUE, knownBounties |-> kb, deliveryLog |-> <<>>]
       /\ knownBounties = loadState(stateFile).knownBounties
       /\ deliveryLog = loadState(stateFile).deliveryLog
       /\ appended = loadState(stateFile).deliveryLog
  /\ webhookEndpoints \in CycleConfigs
  /\ nextEndpoint = 3
  /\ cycles = SetToBag({NewCycle})
  /\ clock = 1
  /\ lastEnd = NoEnd
  /\ lastFeed = NoFeed
  /\ lastFlush = NoFlush
  /\ envEvents = 0
  /\ failures = 0
  /\ emitted = [p \in IdSet \X EventTypes |-> 0]
  /\ lastDetect = NoDetect
  /\ lastCall = NoCall
  /\ delivered = {}
  /\ deliveredBefore = {}
  /\ exhausted = {}

NextCycle ==
  \/ \E c \in BagToSet(cycles) : FetchFails(c)
  \/ \E c \in BagToSet(cycles) : FetchOk(c)
  \/ \E c \in BagToSet(cycles) : JsonFails(c)
  \/ \E c \in BagToSet(cycles) : JsonOk(c)
  \/ \E c \in BagToSet(cycles), o \in Outcomes : PostReturns(c, o)
  \/ \E c \in BagToSet(cycles) : BackoffDone(c)

SpecCycle == InitCycle /\ [][NextCycle]_vars

\* every request the invocation awaits is answered or fails, and every timer fires
LiveCycle == SpecCycle /\ WF_vars(NextCycle)

\* ------------------------------------------------------------ the polls of one process
\* The process starts without a state file, with one endpoint subscribed to
\* bounty.claimed registered in CONFIG_FILE; the initial poll runs, the timer fires,
\* the board moves on; the process is not restarted and its endpoints are not changed.
InitPolls ==
  /\ upstream = [i \in IdSet |-> NoSnapshot]
  /\ stateFile = NoFile
  /\ knownBounties = loadState(stateFile).knownBounties
  /\ deliveryLog = loadState(stateFile).deliveryLog
  /\ appended = loadState(stateFile).deliveryLog
  /\ webhookEndpoints = <<[id |-> 1, events |-> {"bounty.claimed"}, active |-> TRUE]>>
  /\ nextEndpoint = 2
  /\ cycles = SetToBag({NewCycle})
  /\ clock = 1
  /\ lastEnd = NoEnd
  /\ lastFeed = NoFeed
  /\ lastFlush = NoFlush
  /\ envEvents = 0
  /\ failures = 0
  /\ emitted = [p \in IdSet \X EventTypes |-> 0]
  /\ lastDetect = NoDetect
  /\ lastCall = NoCall
  /\ delivered = {}
  /\ deliveredBefore = {}
  /\ exhausted = {}

NextPolls ==
  \/ Tick
  \/ \E c \in BagToSet(cycles) : FetchFails(c)
  \/ \E c \in BagToSet(cycles) : FetchOk(c)
  \/ \E c \in BagToSet(cycles) : JsonFails(c)
  \/ \E c \in BagToSet(cycles) : JsonOk(c)
  \/ \E c \in BagToSet(cycles), o \in Outcomes : PostReturns(c, o)
  \/ \E c \in BagToSet(cycles) : BackoffDone(c)
  \/ \E id \in SpecIds, s \in BoardStatuses : UpstreamAdvance(id, s)

SpecPolls == InitPolls /\ [][NextPolls]_vars

\* ------------------------------------------------------------ helpers of the claims
Delivering(c) == c.pc \in {"post", "backoff"}
CurType(c) == c.events[c.ei]
EntriesOf(log, eventId, endpointId) ==
  SelectSeq(log, LAMBDA e : e.eventId = eventId /\ e.endpointId = endpointId)
AllFailed(outs) == \A i \in 1..Len(outs) : outs[i] # "ok"
\* the ids of the endpoints of eps that are active and subscribed to t, in list order
MatchIds(eps, t) ==
  LET hit == SelectSeq(eps, LAMBDA ep : ep.active /\ t \in ep.events)
  IN [i \in 1..Len(hit) |-> hit[i].id]
\* one 'failed' entry with its status code for every non-2xx answer among the
\* first upto attempts, in order
Non2xxEntries(outs, upto, eventId, endpointId) ==
  LET ks == SelectSeq([k \in 1..upto |-> k], LAMBDA k : outs[k] = "non2xx")
  IN [j \in 1..Len(ks) |-> [eventId |-> eventId, endpointId |-> endpointId, status |-> "failed",
                            attempts |-> ks[j], statusCode |-> TRUE]]
CallEntries == EntriesOf(deliveryLog, lastCall.eventId, lastCall.endpointId)

C3_CyclesSerialized ==
  BagCardinality(cycles) <= 1

\* ------------------------------------------------------------ C4
\* C4: within one running process every event type is detected at most once per
\* bounty (the board only moves a bounty forward, so it enters a status once).
C4_EventOncePerTransition == \A p \in DOMAIN emitted : emitted[p] <= 1

\* ------------------------------------------------------------ C5
\* C5: an event answered 2xx by an endpoint before a restart is not delivered to that
\* endpoint again after the restart while the status of the bounty is unchanged.
C5_NoDuplicateAcrossRestart == delivered \cap deliveredBefore = {}

\* ------------------------------------------------------------ C6
\* C6: a cycle that ends because its fetch failed (non-2xx, transport error, body
\* that does not parse) never reached a delivery, and its last step leaves the
\* snapshots, the log, the state file and the histories of detections and
\* deliveries unchanged.
C6_FetchFailureNoOp ==
  [][\A c \in BagToSet(cycles) :
        (/\ cycles' = Return(c)
         /\ envEvents' = envEvents
         /\ lastEnd' = "fetchFailed")
        => /\ c.pc \in {"fetch", "json"}
           /\ UNCHANGED <<knownBounties, deliveryLog, stateFile, emitted, lastDetect,
                          lastCall, appended, failures, delivered>>]_vars

\* a cycle ended on a failed fetch while the board held a status not yet in the snapshots
C6_Witness ==
  /\ lastEnd = "fetchFailed"
  /\ \E id \in IdSet : upstream[id] # knownBounties[id]

\* ------------------------------------------------------------ C7
LastN(s, k) == SubSeq(s, Len(s) - k + 1, Len(s))

\* C7: after every saveState the log in memory holds at most 1000 entries: the last
\* 1000 ever appended, in the order they were appended, when more than 1000 were, and
\* all of them otherwise; the file, when it is written, holds the same log.
C7_LogCappedToMostRecent ==
  [][\A c \in BagToSet(cycles) :
        (/\ cycles' = Return(c)
         /\ envEvents' = envEvents
         /\ lastEnd' \in {"flushed", "flushFailed"})
        => /\ Len(deliveryLog') <= 1000
           /\ deliveryLog' = LastN(appended', IF Len(appended') > 1000 THEN 1000
                                              ELSE Len(appended'))
           /\ lastEnd' = "flushed" => stateFile'.deliveryLog = deliveryLog']_vars

\* a flush has dropped the oldest entries of a log that had grown beyond the cap
C7_Witness ==
  /\ lastEnd = "flushed"
  /\ Len(appended) > LOG_CAP
  /\ Len(deliveryLog) = LOG_CAP
  /\ deliveryLog[1] # appended[1]

C9_NoAttemptToInactive ==
  [][\A d \in BagToSet(cycles') :
        (d.pc = "post" /\ ~BagIn(d, cycles)) =>
          \E i \in 1..Len(webhookEndpoints') :
            /\ webhookEndpoints'[i].id = d.targets[d.ti]
            /\ webhookEndpoints'[i].active
            /\ CurType(d) \in webhookEndpoints'[i].events]_vars

\* C9 (amended): an event is handed to the delivery engine for exactly the endpoints
\* that were active and subscribed to its type when its targets were filtered, in list
\* order: every log entry of the event is for one of them, and each of them has its
\* closing entry before the next one is tried.
C9_TargetsAreMatchesAtFilter ==
  \A c \in BagToSet(cycles) :
    Delivering(c) =>
      /\ c.targets = MatchIds(c.epsAtFilter, CurType(c))
      /\ c.ti \in 1..Len(c.targets)
      /\ \A i \in 1..Len(deliveryLog) :
           deliveryLog[i].eventId = EventId(c) =>
             \E k \in 1..c.ti : c.targets[k] = deliveryLog[i].endpointId
      /\ \A k \in 1..(c.ti - 1) :
           \E i \in 1..Len(deliveryLog) :
             /\ deliveryLog[i].eventId = EventId(c)
             /\ deliveryLog[i].endpointId = c.targets[k]
             /\ (deliveryLog[i].status = "success" \/ ~deliveryLog[i].statusCode)

\* an event is being delivered while the list its targets were filtered from held
\* an endpoint that was inactive or not subscribed to its type
C9_Witness ==
  \E c \in BagToSet(cycles) :
    /\ Delivering(c)
    /\ \E i \in 1..Len(c.epsAtFilter) :
         ~(c.epsAtFilter[i].active /\ CurType(c) \in c.epsAtFilter[i].events)

\* ------------------------------------------------------------ C10
\* C10: for a record without a previous snapshot detectEvents returns bounty.created
\* first, then the one event of the status when it is claimed, submitted or completed,
\* and nothing else.
C10_FirstSighting ==
  (lastDetect.made /\ lastDetect.old = NoSnapshot) =>
     /\ lastDetect.status = "claimed" =>
          lastDetect.events = <<"bounty.created", "bounty.claimed">>
     /\ lastDetect.status = "submitted" =>
          lastDetect.events = <<"bounty.created", "bounty.submitted">>
     /\ lastDetect.status = "completed" =>
          lastDetect.events = <<"bounty.created", "bounty.completed">>
     /\ lastDetect.status \notin {"claimed", "submitted", "completed"} =>
          lastDetect.events = <<"bounty.created">>

\* a bounty was first seen completed
C10_Witness ==
  /\ lastDetect.made
  /\ lastDetect.old = NoSnapshot
  /\ lastDetect.status = "completed"

\* ------------------------------------------------------------ C11
EventOf(status) == IF status = "claimed" THEN "bounty.claimed"
                   ELSE IF status = "submitted" THEN "bounty.submitted"
                   ELSE "bounty.completed"
Has(events, t) == \E i \in 1..Len(events) : events[i] = t

\* C11: for a record that has a snapshot, detectEvents returns the event of X, for X
\* claimed, submitted or completed, exactly when the snapshot's status is not X and
\* the record's is, each at most once, and never bounty.created; it returns nothing
\* when the two statuses are equal.
C11_LatchPerStatus ==
  (lastDetect.made /\ lastDetect.old # NoSnapshot) =>
     /\ \A X \in {"claimed", "submitted", "completed"} :
          Has(lastDetect.events, EventOf(X)) <=> (lastDetect.old # X /\ lastDetect.status = X)
     /\ ~Has(lastDetect.events, "bounty.created")
     /\ Len(lastDetect.events) <= 1
     /\ lastDetect.old = lastDetect.status => lastDetect.events = <<>>

\* a record polled with the status its snapshot already has, a status with an event
C11_Witness ==
  /\ lastDetect.made
  /\ lastDetect.old = "submitted"
  /\ lastDetect.status = "submitted"

\* ------------------------------------------------------------ C12
\* the lifecycle order open < claimed < submitted < completed
LifecycleRank(s) == IF s = "open" THEN 1 ELSE IF s = "claimed" THEN 2
                    ELSE IF s = "submitted" THEN 3 ELSE IF s = "completed" THEN 4 ELSE 0

\* C12: for a record whose snapshot is later in the lifecycle than the polled status,
\* detectEvents returns nothing.
C12_NoEventOnRegression ==
  (/\ lastDetect.made
   /\ LifecycleRank(lastDetect.old) > 0
   /\ LifecycleRank(lastDetect.status) > 0
   /\ LifecycleRank(lastDetect.old) > LifecycleRank(lastDetect.status))
  => lastDetect.events = <<>>

\* ------------------------------------------------------------ C13
\* C13: a call of deliverWebhook whose attempts all fail has waited 1000 * 2^(k-1) ms
\* after each failed attempt k: 1 s, 2 s and 4 s over the call.
C13_BackoffOneTwoFour ==
  (lastCall.made /\ AllFailed(lastCall.outs)) => lastCall.delays = <<1000, 2000, 4000>>

\* ------------------------------------------------------------ C14
\* C14: whenever no invocation of pollAndDispatch is in progress, the snapshot of every
\* id of the most recently fetched feed holds the status the id has in that feed.
C14_SnapshotIsLatestFetch ==
  (cycles = EmptyBag /\ lastFeed.known) =>
     \A i \in 1..Len(lastFeed.feed) :
        knownBounties[lastFeed.feed[i].id] = lastFeed.feed[i].status

\* ------------------------------------------------------------ C15
NoMatch(t) == MatchIds(webhookEndpoints, t) = <<>>
\* the events of the record j of the feed of c, from its snapshot as it is now
EventsOfRecord(c, j) == detectEvents(knownBounties[c.feed[j].id], c.feed[j].status)
\* no event of c after the one it is delivering, up to the event before position
\* (ri, ei), has an endpoint to go to
NoneBetween(c, ri, ei) ==
  /\ \A k \in (c.ei + 1)..(IF ri = c.ri THEN ei - 1 ELSE Len(c.events)) : NoMatch(c.events[k])
  /\ \A j \in (c.ri + 1)..ri :
       \A k \in 1..(IF j = ri THEN ei - 1 ELSE Len(EventsOfRecord(c, j))) :
          NoMatch(EventsOfRecord(c, j)[k])
\* c, delivering, makes the attempt that exhausts the retries of its call
Exhausts(c) ==
  /\ c.pc = "post"
  /\ Len(c.outs) = MAX_RETRIES - 1
  /\ failures' = failures + 1
  /\ CopiesIn(c, cycles') < CopiesIn(c, cycles)

\* C15: when the last attempt of a delivery fails, deliverWebhook returns false and the
\* cycle goes on: with the next target of the same event when there is one, otherwise
\* with the first later event of the feed that has a target, every record up to it
\* having been processed, otherwise with the flush at the end of the cycle, every record
\* of the feed having been processed.
C15_FailureDoesNotAbort ==
  [][\A c \in BagToSet(cycles) :
       Exhausts(c) =>
         /\ lastCall'.made /\ lastCall'.eventId = EventId(c) /\ lastCall'.ret = FALSE
         /\ IF c.ti < Len(c.targets)
            THEN \E d \in BagToSet(cycles') :
                   /\ d.pc = "post" /\ d.stamp = c.stamp /\ d.targets = c.targets
                   /\ d.ti = c.ti + 1 /\ d.outs = <<>>
            ELSE \/ \E d \in BagToSet(cycles') :
                      /\ d.pc = "post" /\ d.stamp # c.stamp /\ d.feed = c.feed
                      /\ d.ti = 1 /\ d.outs = <<>>
                      /\ d.ri > c.ri \/ (d.ri = c.ri /\ d.ei > c.ei)
                      /\ d.events = IF d.ri = c.ri THEN c.events ELSE EventsOfRecord(c, d.ri)
                      /\ d.targets = MatchIds(webhookEndpoints, d.events[d.ei])
                      /\ d.targets # <<>>
                      /\ NoneBetween(c, d.ri, d.ei)
                      /\ \A j \in (c.ri + 1)..d.ri :
                           knownBounties'[c.feed[j].id] = c.feed[j].status
                 \/ /\ cycles' = Return(c)
                    /\ lastEnd' \in {"flushed", "flushFailed"}
                    /\ NoneBetween(c, Len(c.feed) + 1, 1)
                    /\ \A j \in (c.ri + 1)..Len(c.feed) :
                         knownBounties'[c.feed[j].id] = c.feed[j].status
                    /\ lastEnd' = "flushed" =>
                         /\ stateFile'.knownBounties = knownBounties'
                         /\ stateFile'.deliveryLog = deliveryLog']_vars

\* a delivery has exhausted its retries and the cycle is delivering an event of a later
\* record of the feed
C15_Witness ==
  /\ lastCall.made /\ lastCall.ret = FALSE
  /\ \E c \in BagToSet(cycles) :
       /\ Delivering(c)
       /\ c.ri = 2
       /\ lastCall.eventId[1] = c.feed[1].id

\* ------------------------------------------------------------ C16
\* C16: the state file is never written while the delivery of a detected event is in
\* progress.
C16_NoWriteDuringDelivery ==
  [][stateFile' # stateFile => \A d \in BagToSet(cycles') : ~Delivering(d)]_vars

\* ------------------------------------------------------------ C17
\* C17: when every awaited request is answered or fails and every timer fires, a
\* started invocation of pollAndDispatch returns, whatever fails on its way; until then
\* it never makes a fourth attempt of a call, never goes back to an earlier target of
\* an event and never starts the call for a target again.
C17_CycleTerminates ==
  /\ [][\A d \in BagToSet(cycles') :
          Delivering(d) =>
            /\ Len(d.outs) + 1 <= 3
            /\ \A c \in BagToSet(cycles) :
                 (Delivering(c) /\ c.stamp = d.stamp) =>
                    \/ d.ti > c.ti
                    \/ d.ti = c.ti /\ Len(d.outs) >= Len(c.outs)]_vars
  /\ <>(cycles = EmptyBag)

\* an invocation has returned after a delivery that exhausted its retries and a write
\* of the state file that failed
C17_Witness ==
  /\ cycles = EmptyBag
  /\ lastEnd = "flushFailed"
  /\ lastCall.made
  /\ lastCall.ret = FALSE

\* ------------------------------------------------------------ C18
\* C18 (as stated): for a record whose status is none of open, claimed, submitted and
\* completed, with or without a snapshot, detectEvents returns nothing.
C18_UnknownStatusInert ==
  (lastDetect.made /\ lastDetect.status \notin KnownStatuses) => lastDetect.events = <<>>

\* C18 (amended): for such a record detectEvents returns nothing when the record has a
\* snapshot (whatever its status), and bounty.created alone when it has none.
C18_UnknownStatusOnlyCreated ==
  (lastDetect.made /\ lastDetect.status \notin KnownStatuses) =>
     lastDetect.events = IF lastDetect.old = NoSnapshot THEN <<"bounty.created">> ELSE <<>>

\* a record polled with an unknown status while its snapshot is 'claimed'
C18_Witness ==
  /\ lastDetect.made
  /\ lastDetect.status \notin KnownStatuses
  /\ lastDetect.old = "claimed"

\* ------------------------------------------------------------ C19
\* the records of its feed the invocation c has not processed yet
Pending(c) == ((IF c.pc = "json" THEN 0 ELSE c.ri) + 1)..Len(c.feed)

\* C19: when the write of the state file at the end of a cycle fails, the file is as it
\* was and the memory keeps what the cycle did: the snapshots of the records it
\* processed, the other snapshots as they were, and every entry pushed on the log; and
\* every write that succeeds, among them the first one after a failed one, leaves in
\* the file the snapshots and the log exactly as they are in memory.
C19_MemoryKeptOnWriteFailure ==
  [][\A c \in BagToSet(cycles) :
       (cycles' = Return(c) /\ envEvents' = envEvents /\ lastEnd' \in {"flushed", "flushFailed"})
       => /\ \A j \in Pending(c) : knownBounties'[c.feed[j].id] = c.feed[j].status
          /\ \A id \in IdSet :
               (\A j \in Pending(c) : c.feed[j].id # id) => knownBounties'[id] = knownBounties[id]
          /\ Len(appended') <= LOG_CAP => deliveryLog' = appended'
          /\ lastEnd' = "flushFailed" => stateFile' = stateFile
          /\ lastEnd' = "flushed" =>
               stateFile' = [exists |-> TRUE, knownBounties |-> knownBounties',
                             deliveryLog |-> deliveryLog']]_vars

\* a write of the state file failed, a later cycle ran and its write succeeded: the
\* file holds a snapshot and a log entry
C19_Witness ==
  /\ lastFlush = "recovered"
  /\ lastEnd = "flushed"
  /\ stateFile.exists
  /\ \E id \in IdSet : stateFile.knownBounties[id] # NoSnapshot
  /\ stateFile.deliveryLog # <<>>

\* ------------------------------------------------------------ C20
\* the feed has no record of the bounty id
Missing(feed, id) == \A j \in 1..Len(feed) : feed[j].id # id

\* C20: a snapshot that is in the store stays in the store at every step of the
\* running process, and every step of a cycle whose feed has no record of an id
\* leaves the snapshot of that id as it was, detects no event for it and adds no
\* entry about it to the delivery log.
C20_SnapshotsStay ==
  [][\A id \in IdSet :
       /\ knownBounties[id] # NoSnapshot => knownBounties'[id] # NoSnapshot
       /\ \A c \in BagToSet(cycles) :
            (c.pc # "fetch" /\ Missing(c.feed, id) /\ cycles' # cycles)
            => /\ knownBounties'[id] = knownBounties[id]
               /\ \A t \in EventTypes : emitted'[<<id, t>>] = emitted[<<id, t>>]
               /\ \A i \in (Len(appended) + 1)..Len(appended') :
                    appended'[i].eventId[1] # id]_vars

\* a cycle ran to its end on a feed that lists one bounty and not the other one, whose
\* snapshot is in the store; the listed bounty had its events detected and delivered
C20_Witness ==
  /\ lastEnd = "flushed"
  /\ lastFeed.known
  /\ \E id \in IdSet, other \in IdSet :
       /\ Missing(lastFeed.feed, id)
       /\ knownBounties[id] # NoSnapshot
       /\ ~Missing(lastFeed.feed, other)
       /\ emitted[<<other, "bounty.created">>] > 0
       /\ \E i \in 1..Len(deliveryLog) : deliveryLog[i].eventId[1] = other

\* ------------------------------------------------------------ C21
\* C21: no step of the process starts a call of deliverWebhook for an event of a
\* bounty and an endpoint for which a delivery of an event of the same type of that
\* bounty was given up after MAX_RETRIES attempts earlier in this process, the status
\* of the bounty on the board being unchanged since then.
C21_NoRedelivery ==
  [][\A d \in BagToSet(cycles') :
       (d.pc = "post" /\ d.outs = <<>> /\ CopiesIn(d, cycles') > CopiesIn(d, cycles))
       => <<d.targets[d.ti], d.feed[d.ri].id, CurType(d)>> \notin exhausted]_vars
====
